---------------------------- MODULE Spec2Model ----------------------------
(***************************************************************************)
(* Model of update_quote.py: the greedy line wrapper (wrap_text), the SVG  *)
(* renderer (generate_quote_svg) and the README patcher (update_readme).   *)
(*                                                                         *)
(* A Python str is a sequence of one-character strings.  Two               *)
(* specifications are given:                                               *)
(*   WrapSpec  calls wrap_text(text, max_length) on inputs drawn from      *)
(*             bounded sets;                                               *)
(*   Spec      runs update_readme(quote_data) against a file system that   *)
(*             holds (or lacks) README.md.                                 *)
(***************************************************************************)
EXTENDS Integers, Sequences, FiniteSets, TLC

VARIABLES
    pc,          \* position of the running call
    text,        \* wrap_text: parameter text
    max_length,  \* wrap_text: parameter max_length
    lines,       \* wrap_text: returned list of lines
    quote_data,  \* update_readme: parameter, [quote |-> str, author |-> str]
    readme_file, \* README.md on disk: NoFile or File(tokens)
    svg_file,    \* quote.svg on disk: NoFile or File(svg_parts)
    content,     \* update_readme: local, the README text read
    writes,      \* the write_text calls made so far, in order
    stdout,      \* the messages printed so far
    exit_code    \* NotExited, or Exited(status) once the process has ended

vars == <<pc, text, max_length, lines, quote_data, readme_file, svg_file,
          content, writes, stdout, exit_code>>

---------------------------------------------------------------------------
(* Program constants.                                                      *)

MAX_LINE_LENGTH == 80
SVG_WIDTH == 700
SVG_LINE_HEIGHT == 20
SVG_PADDING == 20
SVG_QUOTE_FONT_SIZE == 16
SVG_AUTHOR_FONT_SIZE == 14
QUOTE_MARKER_START == "<!-- QUOTE:START -->"
QUOTE_MARKER_END == "<!-- QUOTE:END -->"

---------------------------------------------------------------------------
(* Bounds of the model.                                                    *)

\* WrapSpec: longest text, in characters
MaxLen == 6
\* WrapSpec: largest max_length
MaxWidth == 5
\* WrapSpec: max_length ranges down to -NegWidth
NegWidth == 1
\* Spec: most words in a quote
MaxWords == 2
\* Spec: longest README.md, in tokens
MaxReadme == 2

---------------------------------------------------------------------------
(* Strings.                                                                *)

\* the characters str.split() treats as separators
Whitespace == {" ", "\t", "\n"}

\* "c" * n
RECURSIVE Rep(_, _)
Rep(c, n) == IF n <= 0 THEN <<>> ELSE <<c>> \o Rep(c, n - 1)

\* all sequences over S of length at most n
RECURSIVE SeqsUpTo(_, _)
SeqsUpTo(S, n) ==
    IF n = 0 THEN {<<>>}
    ELSE LET shorter == SeqsUpTo(S, n - 1)
         IN  shorter \cup {Append(s, c) : s \in shorter, c \in S}

\* index of the first position >= i of s whose character is (isSpace = TRUE)
\* or is not (isSpace = FALSE) whitespace; Len(s) + 1 when there is none
RECURSIVE Scan(_, _, _)
Scan(s, i, isSpace) ==
    IF i > Len(s) THEN i
    ELSE IF (s[i] \in Whitespace) = isSpace THEN i
    ELSE Scan(s, i + 1, isSpace)

\* str.split(): the maximal runs of non-whitespace characters, in order
RECURSIVE SplitFrom(_, _)
SplitFrom(s, i) ==
    LET b == Scan(s, i, FALSE)
        e == Scan(s, b, TRUE)
    IN  IF b > Len(s) THEN <<>>
        ELSE <<SubSeq(s, b, e - 1)>> \o SplitFrom(s, e)

split(s) == SplitFrom(s, 1)

\* " ".join(words)
RECURSIVE join(_)
join(words) ==
    IF words = <<>> THEN <<>>
    ELSE IF Len(words) = 1 THEN words[1]
    ELSE words[1] \o <<" ">> \o join(Tail(words))

---------------------------------------------------------------------------
(* wrap_text.                                                              *)

\* the loop's state before the first word
WrapInit == [lines |-> <<>>, current_line |-> <<>>, current_length |-> 0]

WordLengthNoSeparator(word, current_line) == Len(word)

\* word_length = len(word) + (1 if current_line else 0)
WordLength(word, current_line) ==
    Len(word) + (IF current_line # <<>> THEN 1 ELSE 0)

FitsStrictly(current_length, word_length, max) ==
    current_length + word_length < max

\* current_length + word_length <= max_length
Fits(current_length, word_length, max) ==
    current_length + word_length <= max

\* current_line.append(word); current_length += word_length
AppendWord(st, word, word_length) ==
    [st EXCEPT !.current_line = Append(@, word),
               !.current_length = @ + word_length]

\* if current_line: lines.append(" ".join(current_line))
Flush(ls, current_line) ==
    IF current_line # <<>> THEN Append(ls, join(current_line)) ELSE ls

StartLineZeroLength(st, word) ==
    [lines          |-> Flush(st.lines, st.current_line),
     current_line   |-> <<word>>,
     current_length |-> 0]

\* the else branch: flush, then current_line = [word]; current_length = len(word)
StartLine(st, word) ==
    [lines          |-> Flush(st.lines, st.current_line),
     current_line   |-> <<word>>,
     current_length |-> Len(word)]

\* one iteration of "for word in words"
WrapStep(st, word, max) ==
    LET word_length == WordLength(word, st.current_line)
    IN  IF Fits(st.current_length, word_length, max)
        THEN AppendWord(st, word, word_length)
        ELSE StartLine(st, word)

RECURSIVE WrapLoop(_, _, _, _)
WrapLoop(words, i, st, max) ==
    IF i > Len(words) THEN st
    ELSE WrapLoop(words, i + 1, WrapStep(st, words[i], max), max)

FinalFlushMissing(st) == st.lines

\* after the loop: if current_line: lines.append(" ".join(current_line))
FinalFlush(st) == Flush(st.lines, st.current_line)

wrap_text(t, max) == FinalFlush(WrapLoop(split(t), 1, WrapInit, max))

---------------------------------------------------------------------------
(* generate_quote_svg.                                                     *)
(*                                                                         *)
(* The document is the list svg_parts, one record per joined line.  Each   *)
(* record carries the element the f-string's literal text opens or closes  *)
(* and, as strings, the values the f-string interpolates: integers as      *)
(* their decimal digits, str values character for character, unescaped.    *)

Digits == <<"0", "1", "2", "3", "4", "5", "6", "7", "8", "9">>

\* f"{n}" for an int n >= 0
RECURSIVE FormatInt(_)
FormatInt(n) ==
    IF n < 10 THEN <<Digits[n + 1]>>
    ELSE FormatInt(n \div 10) \o <<Digits[(n % 10) + 1]>>

\* U+2014, one character of the attribution row
EmDash == "EM DASH"

HeightOnePadding(n) == n * SVG_LINE_HEIGHT + 60 + SVG_PADDING

\* height = len(lines) * SVG_LINE_HEIGHT + 60 + SVG_PADDING * 2
Height(n) == n * SVG_LINE_HEIGHT + 60 + SVG_PADDING * 2

FirstYOffsetNoBaseline == SVG_PADDING

\* y_offset = SVG_PADDING + 25
FirstYOffset == SVG_PADDING + 25

AuthorYNoGap(y_offset) == y_offset

\* y="{y_offset + 20}" of the attribution row
AuthorY(y_offset) == y_offset + 20

\* <svg width="{SVG_WIDTH}" height="{height}" xmlns="...">
SvgOpen(height) ==
    [el |-> "svg", ev |-> "open",
     width |-> FormatInt(SVG_WIDTH), height |-> FormatInt(height)]

\* <rect width="{SVG_WIDTH}" height="{height}" fill="none"/>
Rect(height) ==
    [el |-> "rect", ev |-> "empty",
     width |-> FormatInt(SVG_WIDTH), height |-> FormatInt(height)]

\* <text ... y="{y_offset}" font-size="16" ... font-style="italic">"{line}"</text>
QuoteRow(y_offset, line) ==
    [el |-> "text", ev |-> "element",
     y |-> FormatInt(y_offset),
     font_size |-> FormatInt(SVG_QUOTE_FONT_SIZE),
     fill |-> "#586069", italic |-> TRUE,
     content |-> <<"\"">> \o line \o <<"\"">>]

\* <text ... y="{y_offset + 20}" font-size="14" ...>(em dash) {author}</text>
AuthorRow(y_offset, author) ==
    [el |-> "text", ev |-> "element",
     y |-> FormatInt(AuthorY(y_offset)),
     font_size |-> FormatInt(SVG_AUTHOR_FONT_SIZE),
     fill |-> "#6a737d", italic |-> FALSE,
     content |-> <<EmDash, " ">> \o author]

\* "for line in lines": svg_parts.append(row); y_offset += SVG_LINE_HEIGHT
RECURSIVE RenderLoop(_, _, _)
RenderLoop(ls, i, st) ==
    IF i > Len(ls) THEN st
    ELSE RenderLoop(ls, i + 1,
            [svg_parts |-> Append(st.svg_parts, QuoteRow(st.y_offset, ls[i])),
             y_offset  |-> st.y_offset + SVG_LINE_HEIGHT])

generate_quote_svg(quote_text, author) ==
    LET ls     == wrap_text(quote_text, MAX_LINE_LENGTH)
        height == Height(Len(ls))
        head   == <<SvgOpen(height), Rect(height), [el |-> "g", ev |-> "open"]>>
        st     == RenderLoop(ls, 1, [svg_parts |-> head, y_offset |-> FirstYOffset])
    IN  st.svg_parts
        \o <<AuthorRow(st.y_offset, author)>>
        \o <<[el |-> "g", ev |-> "close"], [el |-> "svg", ev |-> "close"]>>

---------------------------------------------------------------------------
(* update_readme.                                                          *)
(*                                                                         *)
(* README.md is a sequence of tokens: the start marker, the end marker,    *)
(* the image snippet, or OtherText (any other run of text).                *)

\* a path that does not exist, and a file holding data
NoFile == [exists |-> FALSE, data |-> <<>>]
File(data) == [exists |-> TRUE, data |-> data]

\* the process while it runs, and after it ended with a status
NotExited == [exited |-> FALSE, status |-> 0]
Exited(status) == [exited |-> TRUE, status |-> status]
OtherText == "..."
ImgSnippet == "\n<img src=\"./quote.svg\" alt=\"Quote\" />\n"

\* marker in content
Contains(s, marker) == \E i \in 1..Len(s) : s[i] = marker

\* replacement = f'{QUOTE_MARKER_START}\n<img .../>\n{QUOTE_MARKER_END}'
Replacement == <<QUOTE_MARKER_START, ImgSnippet, QUOTE_MARKER_END>>

\* index of the first end marker after position i; 0 when there is none
RECURSIVE NextEnd(_, _)
NextEnd(s, i) ==
    IF i > Len(s) THEN 0
    ELSE IF s[i] = QUOTE_MARKER_END THEN i
    ELSE NextEnd(s, i + 1)

\* re.sub(rf"{START}.*?{END}", replacement, content, flags=re.DOTALL) from
\* position i: each leftmost, shortest start...end span is replaced
RECURSIVE SubFrom(_, _)
SubFrom(s, i) ==
    IF i > Len(s) THEN <<>>
    ELSE IF s[i] = QUOTE_MARKER_START /\ NextEnd(s, i + 1) # 0
         THEN Replacement \o SubFrom(s, NextEnd(s, i + 1) + 1)
         ELSE <<s[i]>> \o SubFrom(s, i + 1)

re_sub(s) == SubFrom(s, 1)

MarkerNeverMissing(s) == FALSE

\* if QUOTE_MARKER_START not in content
MarkerMissing(s) == ~Contains(s, QUOTE_MARKER_START)

\* content = readme_file.read_text(); FileNotFoundError: print, sys.exit(1)
ReadReadme ==
    /\ pc = "update_readme"
    /\ IF ~readme_file.exists
       THEN /\ stdout' = Append(stdout, "Error: README.md not found.")
            /\ exit_code' = Exited(1)
            /\ pc' = "exit"
            /\ UNCHANGED content
       ELSE /\ content' = readme_file.data
            /\ pc' = "check"
            /\ UNCHANGED <<stdout, exit_code>>
    /\ UNCHANGED <<text, max_length, lines, quote_data, readme_file,
                   svg_file, writes>>

\* if QUOTE_MARKER_START not in content: print, sys.exit(1)
CheckMarker ==
    /\ pc = "check"
    /\ IF MarkerMissing(content)
       THEN /\ stdout' = Append(stdout, "Error: Quote markers not found in README.")
            /\ exit_code' = Exited(1)
            /\ pc' = "exit"
       ELSE /\ pc' = "render"
            /\ UNCHANGED <<stdout, exit_code>>
    /\ UNCHANGED <<text, max_length, lines, quote_data, readme_file,
                   svg_file, content, writes>>

\* svg = generate_quote_svg(...); svg_file.write_text(svg)
WriteSvg ==
    /\ pc = "render"
    /\ svg_file' = File(generate_quote_svg(quote_data.quote, quote_data.author))
    /\ writes' = Append(writes, "quote.svg")
    /\ pc' = "patch"
    /\ UNCHANGED <<text, max_length, lines, quote_data, readme_file,
                   content, stdout, exit_code>>

\* new_content = re.sub(...); readme_file.write_text(new_content)
WriteReadme ==
    /\ pc = "patch"
    /\ readme_file' = File(re_sub(content))
    /\ writes' = Append(writes, "README.md")
    /\ pc' = "print"
    /\ UNCHANGED <<text, max_length, lines, quote_data, svg_file,
                   content, stdout, exit_code>>

\* print(f'Updated quote: ...'); the function returns and the process ends
PrintSuccess ==
    /\ pc = "print"
    /\ stdout' = Append(stdout, "Updated quote")
    /\ exit_code' = Exited(0)
    /\ pc' = "done"
    /\ UNCHANGED <<text, max_length, lines, quote_data, readme_file,
                   svg_file, content, writes>>

\* the words quotes are made of: one that always fits, two of which do not
\* fit on one line, one longer than MAX_LINE_LENGTH, and markup characters
QuoteWords ==
    {Rep("a", 1), Rep("a", MAX_LINE_LENGTH \div 2),
     Rep("a", MAX_LINE_LENGTH + 1), <<"<">>, <<"&">>}

Authors == {<<>>, <<"G", "v", "R">>, <<"R", "&", "D">>}

\* random_quote = random.choice(quotes)
Quotes ==
    {[quote |-> join(ws), author |-> a] :
        ws \in SeqsUpTo(QuoteWords, MaxWords), a \in Authors}

ReadmeTokens == {QUOTE_MARKER_START, QUOTE_MARKER_END, OtherText}

Init ==
    /\ pc = "update_readme"
    /\ quote_data \in Quotes
    /\ readme_file \in {NoFile} \cup {File(d) : d \in SeqsUpTo(ReadmeTokens, MaxReadme)}
    /\ svg_file = NoFile
    /\ content = <<>>
    /\ writes = <<>>
    /\ stdout = <<>>
    /\ exit_code = NotExited
    /\ text = <<>>
    /\ max_length = MAX_LINE_LENGTH
    /\ lines = <<>>

Next == ReadReadme \/ CheckMarker \/ WriteSvg \/ WriteReadme \/ PrintSuccess

Spec == Init /\ [][Next]_vars

---------------------------------------------------------------------------
(* wrap_text called on its own.                                            *)

WrapChars == {"a", "b", " "}

WrapInitState ==
    /\ pc = "wrap_text"
    /\ text \in SeqsUpTo(WrapChars, MaxLen)
    /\ max_length \in (0 - NegWidth)..MaxWidth
    /\ lines = <<>>
    /\ quote_data = [quote |-> <<>>, author |-> <<>>]
    /\ readme_file = NoFile
    /\ svg_file = NoFile
    /\ content = <<>>
    /\ writes = <<>>
    /\ stdout = <<>>
    /\ exit_code = NotExited

\* lines = wrap_text(text, max_length)
CallWrap ==
    /\ pc = "wrap_text"
    /\ lines' = wrap_text(text, max_length)
    /\ pc' = "returned"
    /\ UNCHANGED <<text, max_length, quote_data, readme_file, svg_file,
                   content, writes, stdout, exit_code>>

WrapNext == CallWrap

WrapSpec == WrapInitState /\ [][WrapNext]_vars

---------------------------------------------------------------------------
(* Properties of wrap_text, checked under WrapSpec.                        *)

Returned == pc = "returned"

\* the words of the input, as str.split() gives them
InputWords == split(text)

\* C1: for non-empty text and a positive max_length that is at least the
\* length of the longest word of text, every returned line has
\* length <= max_length.
C1_LinesWithinBudget ==
    (/\ Returned
     /\ text # <<>>
     /\ max_length >= 1
     /\ \A k \in 1..Len(InputWords) : Len(InputWords[k]) <= max_length)
    => \A j \in 1..Len(lines) : Len(lines[j]) <= max_length

\* a text of several lines, one of them of several words that fill the
\* budget exactly
C1_Witness ==
    /\ Returned
    /\ text # <<>>
    /\ max_length >= 1
    /\ \A k \in 1..Len(InputWords) : Len(InputWords[k]) <= max_length
    /\ Len(lines) >= 2
    /\ \E j \in 1..Len(lines) :
          Len(lines[j]) = max_length /\ Len(split(lines[j])) >= 2

\* C2: for every text and max_length, joining the returned lines with
\* single spaces and splitting the result on whitespace gives the word
\* sequence of the original text.
C2_RoundTrip == Returned => split(join(lines)) = InputWords

\* three or more words over several lines, of a text whose spacing the
\* lines do not reproduce
C2_Witness ==
    /\ Returned
    /\ Len(InputWords) >= 3
    /\ Len(lines) >= 2
    /\ join(lines) # text

\* C3: for positive max_length, each word longer than max_length is its own
\* line: the words of text longer than max_length are, in order, exactly the
\* lines that exceed max_length, so a line holding such a word holds nothing
\* else.
C3_LongWordOwnLine ==
    (Returned /\ max_length >= 1)
    => LET IsLong(s) == Len(s) > max_length
       IN  /\ SelectSeq(lines, IsLong) = SelectSeq(InputWords, IsLong)
           /\ \A j \in 1..Len(lines) :
                 LET ws == split(lines[j])
                 IN  (\E k \in 1..Len(ws) : IsLong(ws[k])) => ws = <<lines[j]>>

\* an over-long word between two words that fit
C3_Witness ==
    /\ Returned
    /\ max_length >= 1
    /\ Len(lines) = 3
    /\ Len(lines[1]) <= max_length
    /\ Len(lines[2]) > max_length
    /\ Len(lines[3]) <= max_length

\* C9: for positive max_length and consecutive lines L, L', the length of L
\* plus one space plus the length of the first word of L' exceeds max_length.
C9_GreedyFill ==
    (Returned /\ max_length >= 1)
    => \A j \in 1..(Len(lines) - 1) :
          Len(lines[j]) + 1 + Len(split(lines[j + 1])[1]) > max_length

\* a first line of several words followed by another line
C9_Witness ==
    /\ Returned
    /\ max_length >= 1
    /\ Len(lines) >= 2
    /\ Len(split(lines[1])) >= 2

---------------------------------------------------------------------------
(* Properties of generate_quote_svg and update_readme, checked under Spec. *)

\* quote.svg has been written: svg_file.data is generate_quote_svg's output
Rendered == svg_file.exists

QuoteLines == wrap_text(quote_data.quote, MAX_LINE_LENGTH)

\* the int a string of decimal digits denotes
RECURSIVE ParseInt(_)
ParseInt(ds) ==
    LET value(c) == CHOOSE d \in 0..9 : Digits[d + 1] = c
    IN  IF Len(ds) = 1 THEN value(ds[1])
        ELSE 10 * ParseInt(SubSeq(ds, 1, Len(ds) - 1)) + value(ds[Len(ds)])

\* the text elements of a document, in document order
TextRows(doc) ==
    LET IsText(p) == p.el = "text"
    IN  SelectSeq(doc, IsText)

\* C4: the height declared on the root element is
\* 20 * len(wrap_text(quote_text, 80)) + 100.
C4_Height ==
    Rendered
    => /\ svg_file.data[1].el = "svg"
       /\ ParseInt(svg_file.data[1].height) = 20 * Len(QuoteLines) + 100

\* a quote of two wrapped lines, rendered
C4_Witness ==
    /\ Rendered
    /\ Len(QuoteLines) = 2
    /\ svg_file.data[1].height = <<"1", "4", "0">>

\* C5, as stated: with at least one wrapped line, the attribution row's y is
\* 20 more than the y of the last quote row.
C5_AuthorTwentyBelow ==
    (Rendered /\ Len(QuoteLines) >= 1)
    => LET rows == TextRows(svg_file.data)
           n    == Len(rows)
       IN  ParseInt(rows[n].y) = ParseInt(rows[n - 1].y) + 20

\* C5, amended: with at least one wrapped line, the attribution row's y is
\* 40 more than the y of the last quote row (y_offset has already advanced
\* by one line height when 20 is added to it).
C5_AuthorFortyBelow ==
    (Rendered /\ Len(QuoteLines) >= 1)
    => LET rows == TextRows(svg_file.data)
           n    == Len(rows)
       IN  ParseInt(rows[n].y) = ParseInt(rows[n - 1].y) + 40

\* a quote of one wrapped line, rendered, its row at 45 and the author at 85
C5_Witness ==
    /\ Rendered
    /\ Len(QuoteLines) = 1
    /\ LET rows == TextRows(svg_file.data)
       IN  rows[1].y = <<"4", "5">> /\ rows[2].y = <<"8", "5">>

\* the characters that may not appear unescaped in character data
MarkupChars == {"<", "&"}

\* the elements left open after parts i.. of doc, given those open before;
\* <<"mismatch">> when a close tag does not match the innermost open element
RECURSIVE OpenAfter(_, _, _)
OpenAfter(doc, i, open) ==
    IF i > Len(doc) THEN open
    ELSE IF doc[i].ev = "open"
         THEN OpenAfter(doc, i + 1, Append(open, doc[i].el))
    ELSE IF doc[i].ev = "close"
         THEN IF open # <<>> /\ open[Len(open)] = doc[i].el
              THEN OpenAfter(doc, i + 1, SubSeq(open, 1, Len(open) - 1))
              ELSE <<"mismatch">>
    ELSE OpenAfter(doc, i + 1, open)

WellFormed(doc) ==
    /\ OpenAfter(doc, 1, <<>>) = <<>>
    /\ \A i \in 1..Len(doc) :
          doc[i].el = "text"
          => \A k \in 1..Len(doc[i].content) :
                doc[i].content[k] \notin MarkupChars

\* C6: for every quote_text and author, the document is well formed: every
\* opened element is closed in nesting order and no row's text content holds
\* an unescaped markup character.
C6_WellFormed == Rendered => WellFormed(svg_file.data)

\* C8: the text rows are, in order, one row per wrapped line, the i-th
\* (0-based) carrying that line in double quotes at y = 45 + 20*i, then one
\* attribution row, the last; there are len(wrap_text(quote_text, 80)) + 1
\* text rows.
C8_TextRows ==
    Rendered
    => LET rows == TextRows(svg_file.data)
           n    == Len(QuoteLines)
       IN  /\ Len(rows) = n + 1
           /\ \A i \in 1..n :
                 /\ rows[i].content = <<"\"">> \o QuoteLines[i] \o <<"\"">>
                 /\ ParseInt(rows[i].y) = 45 + 20 * (i - 1)
                 /\ rows[i].italic
           /\ rows[n + 1].content = <<EmDash, " ">> \o quote_data.author
           /\ ~rows[n + 1].italic

\* two quote rows, the second at 65, then the row of a named author
C8_Witness ==
    /\ Rendered
    /\ quote_data.author # <<>>
    /\ LET rows == TextRows(svg_file.data)
       IN  /\ Len(rows) = 3
           /\ rows[2].y = <<"6", "5">>
           /\ rows[2].italic
           /\ ~rows[3].italic

Ended == pc \in {"exit", "done"}

\* at the end of a run content still holds what README.md held at the start
MarkersAbsent ==
    \/ ~readme_file.exists
    \/ ~Contains(content, QUOTE_MARKER_START)
    \/ ~Contains(content, QUOTE_MARKER_END)

\* C7: update_readme ends the process with status 1 and no success message
\* whenever README.md is missing or the start marker, the end marker or both
\* are absent from it.
C7_ExitsWhenMarkersAbsent ==
    (Ended /\ MarkersAbsent)
    => /\ exit_code = Exited(1)
       /\ ~Contains(stdout, "Updated quote")

\* C10: a run that exits with an error writes neither file; writes happen
\* only after README.md was read and the start marker found in it; a run
\* that ends without error has written quote.svg, then README.md, each once.
C10_WritesAfterChecksInOrder ==
    /\ writes \in {<<>>, <<"quote.svg">>, <<"quote.svg", "README.md">>}
    /\ (exit_code.exited /\ exit_code.status # 0)
       => writes = <<>> /\ ~svg_file.exists
    /\ writes # <<>> => Contains(content, QUOTE_MARKER_START)
    /\ (writes = <<>>) = ~svg_file.exists
    /\ pc \in {"print", "done"} => writes = <<"quote.svg", "README.md">>

\* a run that ended with status 0 after both writes
C10_Witness ==
    /\ pc = "done"
    /\ exit_code = Exited(0)
    /\ writes = <<"quote.svg", "README.md">>
    /\ readme_file.data = re_sub(content)

============================================================================
